---- MODULE Spec2Model ----
(***************************************************************************)
(* Model of azure_chatgpt.py: the column-selector parser                   *)
(* (_parse_usecols_expr), the tabular loader (csv_to_text) with its repair *)
(* fallback, and the single-request flow of main.                          *)
(*                                                                         *)
(* A Python str is a sequence of characters; a character is a one-letter   *)
(* TLA+ string, except "sup2", which stands for U+00B2 (SUPERSCRIPT TWO):  *)
(* str.isdigit() is True for it, the regex class \d does not match it and  *)
(* int() rejects it.                                                       *)
(*                                                                         *)
(* pandas is modelled with the semantics of pandas 2.x (>= 2.1): usecols is *)
(* validated as all positions or all names, positions out of bounds and    *)
(* unknown names raise ValueError, an empty usecols reads no column, and   *)
(* DataFrame.map maps a frame cell by cell. The file is modelled as its    *)
(* parsed table, a header of distinct names and rows of fields; no name    *)
(* and no field holds a comma, a quote or a line break.                    *)
(***************************************************************************)
EXTENDS Integers, Sequences, FiniteSets, TLC

VARIABLES
    pc,          \* the position of the run
    caller,      \* "direct": a call of a helper on its own; "main": a run of main
    usecols,     \* csv_to_text's usecols argument (NONE or a str)
    cols,        \* csv_to_text's cols: None or the parsed selector list
    exc,         \* the exception raised and not caught, "none" if none
    header,      \* the CSV file: its header row (column names)
    rows,        \* the CSV file: its data rows, each a sequence of fields
    readable,    \* whether the file at csv_path can be opened and parsed
    names,       \* csv_to_text's names (the true header, read in the repair)
    fixed,       \* csv_to_text's fixed (the corrected selector list)
    df,          \* csv_to_text's df
    path,        \* which read produced df: direct, retry, project or full
    n_rows,      \* csv_to_text's n_rows
    text,        \* the CSV text csv_to_text returns
    endpoint,    \* AZURE_OPENAI_ENDPOINT
    key,         \* AZURE_OPENAI_API_KEY
    csv_path,    \* CSV_PATH
    columns,     \* COLUMNS
    requests,    \* the number of client.responses.create calls made
    response,    \* resp_sum
    printed,     \* the lines printed to standard output
    exitcode     \* the exit status of the process, -1 while it runs

vars == <<pc, caller, usecols, cols, exc, header, rows, readable, names, fixed,
          df, path, n_rows, text, endpoint, key, csv_path, columns, requests,
          response, printed, exitcode>>

loaderVars == <<names, fixed, df, path, n_rows, text>>
fileVars == <<header, rows, readable>>
mainVars == <<endpoint, key, csv_path, columns, requests, response, printed,
              exitcode>>

\* Python's None, for an Optional[str] and for usecols=None.
NONE == <<"<None>">>

----------------------------------------------------------------------------
\* Characters and str methods

DecDigits == {"0", "1", "2", "3", "4", "5", "6", "7", "8", "9"}

\* Characters for which str.isdigit() is True.
DigitChars == DecDigits \cup {"sup2"}

\* Whitespace: str.strip() with no argument, and the regex class \s.
IsSpace(c) == c \in {" ", "\n"}

DigitVal(c) ==
    CASE c = "0" -> 0 [] c = "1" -> 1 [] c = "2" -> 2 [] c = "3" -> 3
      [] c = "4" -> 4 [] c = "5" -> 5 [] c = "6" -> 6 [] c = "7" -> 7
      [] c = "8" -> 8 [] c = "9" -> 9

RECURSIVE lstrip(_)
lstrip(s) == IF s # <<>> /\ IsSpace(Head(s)) THEN lstrip(Tail(s)) ELSE s

RECURSIVE rstrip(_)
rstrip(s) ==
    IF s # <<>> /\ IsSpace(s[Len(s)]) THEN rstrip(SubSeq(s, 1, Len(s) - 1)) ELSE s

strip(s) == rstrip(lstrip(s))

\* s.split(sep): the pieces between the separators; [""] for the empty string.
RECURSIVE split(_, _)
split(s, sep) ==
    IF \A i \in 1..Len(s) : s[i] # sep
    THEN <<s>>
    ELSE LET i == CHOOSE k \in 1..Len(s) :
                      s[k] = sep /\ \A j \in 1..(k - 1) : s[j] # sep
         IN  <<SubSeq(s, 1, i - 1)>> \o split(SubSeq(s, i + 1, Len(s)), sep)

\* tok.isdigit(): non-empty and every character a digit character.
isdigit(tok) == tok # <<>> /\ \A i \in 1..Len(tok) : tok[i] \in DigitChars

\* int(s) raises ValueError unless s is made of decimal digits.
IntRaises(s) == s = <<>> \/ \E i \in 1..Len(s) : s[i] \notin DecDigits

RECURSIVE int(_)
int(s) ==
    IF s = <<>> THEN 0
    ELSE int(SubSeq(s, 1, Len(s) - 1)) * 10 + DigitVal(s[Len(s)])

----------------------------------------------------------------------------
\* Column selectors: an int position or a str name (List[Union[int, str]]).

Pos(n) == [kind |-> "int", pos |-> n, name |-> <<>>]
Name(s) == [kind |-> "str", pos |-> 0, name |-> s]

\* The number of characters from position i on that satisfy the class.
RECURSIVE DigitRun(_, _)
DigitRun(s, i) ==
    IF i <= Len(s) /\ s[i] \in DecDigits THEN 1 + DigitRun(s, i + 1) ELSE 0

RECURSIVE SpaceRun(_, _)
SpaceRun(s, i) ==
    IF i <= Len(s) /\ IsSpace(s[i]) THEN 1 + SpaceRun(s, i + 1) ELSE 0

\* _RANGE_RE.match(tok) for ^\s*(\d+)\s*[:\-]\s*(\d+)\s*$ : the classes are
\* disjoint, so the greedy match is the only one.
_RANGE_RE(tok) ==
    LET p0 == 1 + SpaceRun(tok, 1)
        n1 == DigitRun(tok, p0)
        p1 == p0 + n1 + SpaceRun(tok, p0 + n1)
        p2 == p1 + 1 + SpaceRun(tok, p1 + 1)
        n2 == DigitRun(tok, p2)
        p3 == p2 + n2 + SpaceRun(tok, p2 + n2)
    IN  [matched |-> /\ n1 >= 1
                     /\ p1 <= Len(tok)
                     /\ tok[p1] \in {":", "-"}
                     /\ n2 >= 1
                     /\ p3 = Len(tok) + 1,
         g1 |-> SubSeq(tok, p0, p0 + n1 - 1),
         g2 |-> SubSeq(tok, p2, p2 + n2 - 1)]

\* The bug of range(lo, hi): the upper endpoint left out.
RangeSel_HalfOpen(lo, hi) == [i \in 1..(hi - lo) |-> Pos(lo + i - 1)]

\* range(lo, hi + 1) as positions.
RangeSel(lo, hi) == [i \in 1..(hi - lo + 1) |-> Pos(lo + i - 1)]

\* tokens = [t.strip() for t in (expr or "").split(",") if t.strip()]
Tokens(expr) ==
    LET e == IF expr = NONE THEN <<>> ELSE expr
        parts == split(e, ",")
        stripped == [i \in 1..Len(parts) |-> strip(parts[i])]
    IN  SelectSeq(stripped, LAMBDA t : t # <<>>)

\* The for loop over the tokens; int(tok) may raise ValueError.
RECURSIVE ParseLoop(_, _)
ParseLoop(tokens, out) ==
    IF tokens = <<>> THEN [exc |-> "none", out |-> out]
    ELSE LET tok == Head(tokens)
             m == _RANGE_RE(tok)
         IN  IF m.matched
             THEN LET a == int(m.g1)
                      b == int(m.g2)
                      lo == IF a <= b THEN a ELSE b
                      hi == IF a <= b THEN b ELSE a
                  IN  ParseLoop(Tail(tokens), out \o RangeSel(lo, hi))
             ELSE IF isdigit(tok)
             THEN IF IntRaises(tok)
                  THEN [exc |-> "ValueError", out |-> <<>>]
                  ELSE ParseLoop(Tail(tokens), Append(out, Pos(int(tok))))
             ELSE ParseLoop(Tail(tokens), Append(out, Name(tok)))

_parse_usecols_expr(expr) == ParseLoop(Tokens(expr), <<>>)

----------------------------------------------------------------------------
\* The response of the completion API, before any is received.
NoResponse == [kind |-> "none", text |-> <<>>]

\* The strings over an alphabet of at most n characters.
RECURSIVE StringsUpTo(_, _)
StringsUpTo(alphabet, n) ==
    IF n = 0 THEN {<<>>}
    ELSE LET shorter == StringsUpTo(alphabet, n - 1)
         IN  shorter \cup {Append(s, c) : s \in shorter, c \in alphabet}

----------------------------------------------------------------------------
\* pandas: frames, read_csv, column projection, to_csv

\* A missing value (NaN) of a frame read with dtype=str.
NaN == <<"<NaN>">>

\* The fields read_csv reads as missing (its default na_values, in part).
NaValues == {<<>>, <<"N", "A">>, <<"n", "a", "n">>, <<"n", "u", "l", "l">>}

\* A frame: its column labels and its rows, each row one cell per column.
Frame(columns_, data) == [columns |-> columns_, data |-> data]

EmptyFrame == Frame(<<>>, <<>>)

NoCols == [given |-> FALSE, sel |-> <<>>]
SomeCols(sel) == [given |-> TRUE, sel |-> sel]

\* The members of a sequence.
Range(s) == {s[i] : i \in 1..Len(s)}

\* The whole file as a frame: every value a str, missing fields NaN.
FullFrame(hdr, body) ==
    Frame(hdr, [r \in 1..Len(body) |->
                  [c \in 1..Len(hdr) |->
                     IF body[r][c] \in NaValues THEN NaN ELSE body[r][c]]])

\* The columns of a frame at the given positions (1-based), in that order.
TakeCols(d, idx) ==
    Frame([k \in 1..Len(idx) |-> d.columns[idx[k]]],
          [r \in 1..Len(d.data) |-> [k \in 1..Len(idx) |-> d.data[r][idx[k]]]])

\* lib.infer_dtype(usecols) of pandas' _validate_usecols_arg.
infer_dtype(sel) ==
    IF sel = <<>> THEN "empty"
    ELSE IF \A i \in 1..Len(sel) : sel[i].kind = "int" THEN "integer"
    ELSE IF \A i \in 1..Len(sel) : sel[i].kind = "str" THEN "string"
    ELSE "mixed"

\* The members of a set of positions among from..to, in ascending order.
RECURSIVE Ascending(_, _, _)
Ascending(from, to, S) ==
    IF from > to THEN <<>>
    ELSE (IF from \in S THEN <<from>> ELSE <<>>) \o Ascending(from + 1, to, S)

\* pd.read_csv(csv_path, usecols=c, dtype=str) on a readable file. usecols is
\* used as a set: the result keeps the file's column order, each column once.
\* A list mixing positions and names, a position out of bounds and a name that
\* is no column each raise ValueError (ParserError is a ValueError). An empty
\* list reads no column, and the frame has no rows.
read_csv(hdr, body, c) ==
    LET full == FullFrame(hdr, body)
        dtype == infer_dtype(c.sel)
        wanted == Range(c.sel)
        inUse == {i \in 1..Len(hdr) :
                     Pos(i - 1) \in wanted \/ Name(hdr[i]) \in wanted}
    IN  IF ~c.given THEN [exc |-> "none", df |-> full]
        ELSE IF dtype = "mixed" THEN [exc |-> "ValueError", df |-> EmptyFrame]
        ELSE IF dtype = "empty" THEN [exc |-> "none", df |-> EmptyFrame]
        ELSE IF dtype = "integer" /\ \E s \in wanted : s.pos >= Len(hdr)
             THEN [exc |-> "ValueError", df |-> EmptyFrame]
        ELSE IF dtype = "string" /\ \E s \in wanted : s.name \notin Range(hdr)
             THEN [exc |-> "ValueError", df |-> EmptyFrame]
        ELSE [exc |-> "none",
              df |-> TakeCols(full, Ascending(1, Len(hdr), inUse))]

\* The position (1-based) of the first column with a label.
IndexOf(seq, x) == CHOOSE i \in 1..Len(seq) : seq[i] = x /\ \A j \in 1..(i - 1) : seq[j] # x

\* df[keep], the labels of df being distinct: one column per entry of keep.
Project(d, keep) ==
    TakeCols(d, [k \in 1..Len(keep) |-> IndexOf(d.columns, keep[k])])

\* df.fillna("")
fillna(d) ==
    Frame(d.columns,
          [r \in 1..Len(d.data) |->
             [c \in 1..Len(d.columns) |->
                IF d.data[r][c] = NaN THEN <<>> ELSE d.data[r][c]]])

CellLimit == 500
CellKeep == 450
TRUNC == <<".", ".", ".", "[", "T", "R", "U", "N", "C", "]", ".", ".", ".">>

\* The bug of len(x) < 500: a cell of exactly 500 characters is cut.
Truncate_Strict(x) == IF Len(x) < CellLimit THEN x ELSE SubSeq(x, 1, CellKeep) \o TRUNC

\* lambda x: x if len(x) <= 500 else (x[:450] + "...[TRUNC]...")
Truncate(x) == IF Len(x) <= CellLimit THEN x ELSE SubSeq(x, 1, CellKeep) \o TRUNC

\* df[col] = df[col].map(f): every column labelled col is mapped cell by cell.
MapColumn(d, col) ==
    Frame(d.columns,
          [r \in 1..Len(d.data) |->
             [c \in 1..Len(d.columns) |->
                IF d.columns[c] = col THEN Truncate(d.data[r][c])
                ELSE d.data[r][c]]])

\* for col in df.columns: df[col] = df[col].map(...)
RECURSIVE TruncateLoop(_, _)
TruncateLoop(d, labels) ==
    IF labels = <<>> THEN d
    ELSE TruncateLoop(MapColumn(d, Head(labels)), Tail(labels))

\* csv.writer (QUOTE_MINIMAL): a field is quoted when it holds the delimiter,
\* the quote character or a line break, and when it is the empty only field of
\* its row. (No field of the model holds a quote character to double.)
CsvField(f, alone) ==
    IF (\E i \in 1..Len(f) : f[i] \in {",", "\"", "\n", "\r"}) \/ (alone /\ f = <<>>)
    THEN <<"\"">> \o f \o <<"\"">>
    ELSE f

RECURSIVE CsvJoin(_, _)
CsvJoin(fields, alone) ==
    IF fields = <<>> THEN <<>>
    ELSE IF Len(fields) = 1 THEN CsvField(fields[1], alone)
    ELSE CsvField(fields[1], alone) \o <<",">> \o CsvJoin(Tail(fields), alone)

CsvLine(fields) == CsvJoin(fields, Len(fields) = 1) \o <<"\n">>

RECURSIVE CsvLines(_)
CsvLines(data) ==
    IF data = <<>> THEN <<>> ELSE CsvLine(Head(data)) \o CsvLines(Tail(data))

\* df.to_csv(index=False): the header line, then one line per row.
to_csv(d) == CsvLine(d.columns) \o CsvLines(d.data)

----------------------------------------------------------------------------
\* csv_to_text

\* The call ends by an exception nobody catches.
Raise(e) ==
    /\ exc' = e
    /\ pc' = "raised"

\* cols = _parse_usecols_expr(usecols) if usecols else None
ParseCols ==
    /\ pc = "csv_to_text"
    /\ IF usecols = NONE \/ usecols = <<>>
       THEN /\ cols' = NoCols
            /\ pc' = "read"
            /\ exc' = exc
       ELSE LET r == _parse_usecols_expr(usecols)
            IN  IF r.exc = "none"
                THEN /\ cols' = SomeCols(r.out)
                     /\ pc' = "read"
                     /\ exc' = exc
                ELSE /\ Raise(r.exc)
                     /\ cols' = cols
    /\ UNCHANGED <<caller, usecols, fileVars, loaderVars, mainVars>>

\* try: df = pd.read_csv(csv_path, usecols=cols, ...)   except ValueError: ...
FirstRead ==
    /\ pc = "read"
    /\ IF ~readable
       THEN /\ Raise("OSError")
            /\ UNCHANGED <<df, path>>
       ELSE LET r == read_csv(header, rows, cols)
            IN  IF r.exc = "none"
                THEN /\ df' = r.df
                     /\ path' = "direct"
                     /\ pc' = "transform"
                     /\ exc' = exc
                ELSE /\ pc' = "repair"
                     /\ UNCHANGED <<df, path, exc>>
    /\ UNCHANGED <<caller, usecols, cols, fileVars, names, fixed, n_rows, text,
                   mainVars>>

\* for c in cols: keep the positions within [0, max_idx] and the names in names
FixedOf(c, nms) ==
    LET max_idx == Len(nms) - 1
    IN  SelectSeq(c.sel,
                  LAMBDA s : IF s.kind = "int"
                             THEN 0 <= s.pos /\ s.pos <= max_idx
                             ELSE s.name \in Range(nms))

\* The bug of retrying whatever fixed holds (no "if fixed").
Repair_AlwaysRetry ==
    /\ pc = "repair"
    /\ names' = header
    /\ fixed' = IF cols.given THEN FixedOf(cols, header) ELSE <<>>
    /\ pc' = "retry"
    /\ UNCHANGED <<caller, usecols, cols, exc, fileVars, df, path, n_rows, text,
                   mainVars>>

\* header_only = pd.read_csv(csv_path, nrows=0, ...); names; fixed
Repair ==
    /\ pc = "repair"
    /\ names' = header
    /\ fixed' = IF cols.given THEN FixedOf(cols, header) ELSE <<>>
    /\ pc' = IF fixed' # <<>> THEN "retry" ELSE "read_all"
    /\ UNCHANGED <<caller, usecols, cols, exc, fileVars, df, path, n_rows, text,
                   mainVars>>

\* try: df = pd.read_csv(csv_path, usecols=fixed, ...)   except Exception: ...
Retry ==
    /\ pc = "retry"
    /\ LET r == read_csv(header, rows, SomeCols(fixed))
       IN  IF r.exc = "none"
           THEN /\ df' = r.df
                /\ path' = "retry"
                /\ pc' = "transform"
           ELSE /\ pc' = "fallback"
                /\ UNCHANGED <<df, path>>
    /\ UNCHANGED <<caller, usecols, cols, exc, fileVars, names, fixed, n_rows,
                   text, mainVars>>

\* keep = [names[i] for i in fixed if isinstance(i, int)]
\*        + [c for c in fixed if isinstance(c, str)]
\* keep = [c for c in keep if c in df.columns]
KeepOf(fx, nms, d) ==
    LET ints == SelectSeq(fx, LAMBDA s : s.kind = "int")
        strs == SelectSeq(fx, LAMBDA s : s.kind = "str")
        keep == [i \in 1..Len(ints) |-> nms[ints[i].pos + 1]]
                \o [i \in 1..Len(strs) |-> strs[i].name]
    IN  SelectSeq(keep, LAMBDA c : c \in Range(d.columns))

\* df = pd.read_csv(csv_path, ...); keep = ...; if keep: df = df[keep]
Fallback ==
    /\ pc = "fallback"
    /\ LET full == read_csv(header, rows, NoCols).df
           keep == KeepOf(fixed, names, full)
       IN  df' = IF keep # <<>> THEN Project(full, keep) ELSE full
    /\ path' = "project"
    /\ pc' = "transform"
    /\ UNCHANGED <<caller, usecols, cols, exc, fileVars, names, fixed, n_rows,
                   text, mainVars>>

\* else: df = pd.read_csv(csv_path, dtype=str, encoding_errors="ignore")
ReadAll ==
    /\ pc = "read_all"
    /\ df' = read_csv(header, rows, NoCols).df
    /\ path' = "full"
    /\ pc' = "transform"
    /\ UNCHANGED <<caller, usecols, cols, exc, fileVars, names, fixed, n_rows,
                   text, mainVars>>

\* n_rows = len(df); df = df.fillna(""); truncate; return df.to_csv(), n_rows
Transform ==
    /\ pc = "transform"
    /\ n_rows' = Len(df.data)
    /\ df' = TruncateLoop(fillna(df), df.columns)
    /\ text' = to_csv(df')
    /\ pc' = IF caller = "main" THEN "request" ELSE "returned"
    /\ UNCHANGED <<caller, usecols, cols, exc, fileVars, names, fixed, path,
                   mainVars>>

csv_to_text ==
    \/ ParseCols
    \/ FirstRead
    \/ Repair
    \/ Retry
    \/ Fallback
    \/ ReadAll
    \/ Transform

----------------------------------------------------------------------------
\* Bounded inputs of the loader

\* The values of the variables a run does not use or has not set yet.
IdleLoader ==
    /\ cols = NoCols
    /\ exc = "none"
    /\ names = <<>>
    /\ fixed = <<>>
    /\ df = EmptyFrame
    /\ path = "none"
    /\ n_rows = 0
    /\ text = <<>>

IdleFile ==
    /\ header = <<>>
    /\ rows = <<>>
    /\ readable = TRUE

IdleMain ==
    /\ endpoint = NONE
    /\ key = NONE
    /\ csv_path = NONE
    /\ columns = NONE
    /\ requests = 0
    /\ response = NoResponse
    /\ printed = <<>>
    /\ exitcode = -1

MaxSel == 3
MaxRows == 2

\* Headers with distinct names.
Headers == {<<<<"A">>>>, <<<<"A">>, <<"B">>>>, <<<<"B">>, <<"A">>, <<"C">>>>}

RowDigit(r) == CASE r = 1 -> "1" [] r = 2 -> "2" [] r = 3 -> "3" [] OTHER -> "4"

\* A file whose field in column c of row r is the column's name and the row's
\* digit, which tells the cells of the result apart.
TaggedRows(hdr, n) ==
    [r \in 1..n |-> [c \in 1..Len(hdr) |-> Append(hdr[c], RowDigit(r))]]

\* The tokens a column specification is put together from: a position within
\* every header, one out of range, names of the header, a name of no header, a
\* range, and a blank.
LoaderTokens ==
    {<<"0">>, <<"9">>, <<"A">>, <<"B">>, <<"Z">>, <<"0", "-", "1">>, <<" ">>}

RECURSIVE JoinedSpecs(_)
JoinedSpecs(n) ==
    IF n = 0 THEN {<<>>}
    ELSE LET shorter == JoinedSpecs(n - 1)
         IN  shorter \cup LoaderTokens
             \cup {s \o <<",">> \o t : s \in shorter \ {<<>>}, t \in LoaderTokens}

LoaderSpecs == JoinedSpecs(MaxSel) \cup {NONE, <<",">>}

Init ==
    /\ pc = "csv_to_text"
    /\ caller = "direct"
    /\ usecols \in LoaderSpecs
    /\ header \in Headers
    /\ \E n \in 0..MaxRows : rows = TaggedRows(header, n)
    /\ readable = TRUE
    /\ IdleLoader
    /\ IdleMain

Next == csv_to_text

Spec == Init /\ [][Next]_vars

----------------------------------------------------------------------------
\* main

\* "not s" for an Optional[str] of the environment: unset or empty.
Falsy(s) == s = NONE \/ s = <<>>

\* s.splitlines(): the pieces between line breaks, without a last empty piece.
splitlines(s) ==
    IF s = <<>> THEN <<>>
    ELSE LET parts == split(s, "\n")
         IN  IF parts[Len(parts)] = <<>> THEN SubSeq(parts, 1, Len(parts) - 1)
             ELSE parts

\* The bug of leaving out the check of CSV_PATH.
CheckConfig_NoPathCheck ==
    /\ pc = "main"
    /\ IF Falsy(endpoint) \/ Falsy(key)
       THEN /\ exitcode' = 2
            /\ pc' = "exited"
            /\ usecols' = usecols
       ELSE /\ usecols' = IF columns = NONE \/ strip(columns) = <<>> THEN NONE
                          ELSE strip(columns)
            /\ pc' = "csv_to_text"
            /\ exitcode' = exitcode
    /\ UNCHANGED <<caller, cols, exc, fileVars, loaderVars, endpoint, key,
                   csv_path, columns, requests, response, printed>>

\* load_dotenv(); the presence checks; columns; the call of csv_to_text
CheckConfig ==
    /\ pc = "main"
    /\ IF Falsy(endpoint) \/ Falsy(key) \/ Falsy(csv_path)
       THEN /\ exitcode' = 2
            /\ pc' = "exited"
            /\ usecols' = usecols
       ELSE /\ usecols' = IF columns = NONE \/ strip(columns) = <<>> THEN NONE
                          ELSE strip(columns)
            /\ pc' = "csv_to_text"
            /\ exitcode' = exitcode
    /\ UNCHANGED <<caller, cols, exc, fileVars, loaderVars, endpoint, key,
                   csv_path, columns, requests, response, printed>>

MaxResp == 3

ResponseTexts == StringsUpTo({"x", " ", "\n"}, MaxResp) \cup {NONE}

\* What client.responses.create returns: "text", the text is resp.output_text;
\* "dump_text", reading output_text raises and model_dump()["output"] is a
\* dict holding the text; "dump_list", reading output_text raises and
\* model_dump()["output"] is a list, which has no get.
Responses ==
    [kind : {"text", "dump_text"}, text : ResponseTexts]
    \cup {[kind |-> "dump_list", text |-> <<>>]}

\* resp_sum = client.responses.create(**kwargs_sum): one request; the call
\* returns a response or raises (a network or API error).
SendRequest ==
    /\ pc = "request"
    /\ requests' = requests + 1
    /\ \/ /\ response' \in Responses
          /\ pc' = "extract"
          /\ exc' = exc
       \/ /\ Raise("APIError")
          /\ response' = response
    /\ UNCHANGED <<caller, usecols, cols, fileVars, loaderVars, endpoint, key,
                   csv_path, columns, printed, exitcode>>

\* (text or "").strip()
SummaryText(r) == IF r.text = NONE THEN <<>> ELSE strip(r.text)

\* The lines of: for line in summary_text.splitlines(): print(line.rstrip())
PrintedLines(summary) ==
    LET ls == splitlines(summary)
    IN  [i \in 1..Len(ls) |-> rstrip(ls[i])]

\* The bug of asking again when the summary is empty.
Extract_RetryOnEmpty ==
    /\ pc = "extract"
    /\ IF response.kind = "dump_list"
       THEN /\ Raise("AttributeError")
            /\ UNCHANGED <<printed, exitcode>>
       ELSE LET summary_text == SummaryText(response)
            IN  /\ exc' = exc
                /\ IF summary_text = <<>>
                   THEN /\ pc' = "request"
                        /\ UNCHANGED <<printed, exitcode>>
                   ELSE /\ printed' = printed \o PrintedLines(summary_text)
                        /\ exitcode' = 0
                        /\ pc' = "exited"
    /\ UNCHANGED <<caller, usecols, cols, fileVars, loaderVars, endpoint, key,
                   csv_path, columns, requests, response>>

\* summary_text from the response; exit 3 if it is empty, else print it.
Extract ==
    /\ pc = "extract"
    /\ IF response.kind = "dump_list"
       THEN /\ Raise("AttributeError")
            /\ UNCHANGED <<printed, exitcode>>
       ELSE LET summary_text == SummaryText(response)
            IN  /\ exc' = exc
                /\ pc' = "exited"
                /\ IF summary_text = <<>>
                   THEN /\ exitcode' = 3
                        /\ printed' = printed
                   ELSE /\ printed' = printed \o PrintedLines(summary_text)
                        /\ exitcode' = 0
    /\ UNCHANGED <<caller, usecols, cols, fileVars, loaderVars, endpoint, key,
                   csv_path, columns, requests, response>>

\* An exception that main does not catch ends the process with status 1.
Uncaught ==
    /\ pc = "raised"
    /\ caller = "main"
    /\ exitcode' = 1
    /\ pc' = "exited"
    /\ UNCHANGED <<caller, usecols, cols, exc, fileVars, loaderVars, endpoint,
                   key, csv_path, columns, requests, response, printed>>

EnvValues == {NONE, <<>>, <<"v">>}

\* Values of COLUMNS: unset, blank, valid, partly valid, invalid, mixed, a
\* superscript digit.
MainColumns ==
    { NONE, <<>>, <<" ">>, <<",">>, <<" ", "B", " ">>, <<"9", ",", "B">>,
      <<"0", ",", "A">>, <<"Z">>, <<"sup2">> }

InitMain ==
    /\ pc = "main"
    /\ caller = "main"
    /\ usecols = NONE
    /\ endpoint \in EnvValues
    /\ key \in EnvValues
    /\ csv_path \in EnvValues
    /\ columns \in MainColumns
    /\ header \in Headers
    /\ \E n \in 0..MaxRows : rows = TaggedRows(header, n)
    /\ readable \in BOOLEAN
    /\ requests = 0
    /\ response = NoResponse
    /\ printed = <<>>
    /\ exitcode = -1
    /\ IdleLoader

main ==
    \/ CheckConfig
    \/ csv_to_text
    \/ SendRequest
    \/ Extract
    \/ Uncaught

SpecMain == InitMain /\ [][main]_vars

----------------------------------------------------------------------------
\* Files with long cells, for the truncation

MaxLongRows == 1

\* A cell of n characters, no two neighbours alike.
CellChar(i) == CASE i % 3 = 0 -> "x" [] i % 3 = 1 -> "y" [] OTHER -> "z"
Cell(n) == [i \in 1..n |-> CellChar(i)]

\* Lengths at the limit, on either side of it and well above it.
CellLens == {1, 500, 501, 520}

LongFields == {Cell(n) : n \in CellLens} \cup {<<>>, <<"N", "A">>}

LongHeader == <<<<"A">>, <<"B">>>>

LongSpecs == {NONE, <<"B">>, <<"9", ",", "B">>, <<"0", ",", "B">>, <<"Z">>}

RECURSIVE SeqsUpTo(_, _)
SeqsUpTo(S, n) ==
    IF n = 0 THEN {<<>>}
    ELSE LET shorter == SeqsUpTo(S, n - 1)
         IN  shorter \cup {Append(s, x) : s \in shorter, x \in S}

InitLong ==
    /\ pc = "csv_to_text"
    /\ caller = "direct"
    /\ usecols \in LongSpecs
    /\ header = LongHeader
    /\ rows \in SeqsUpTo([1..Len(LongHeader) -> LongFields], MaxLongRows) \ {<<>>}
    /\ readable = TRUE
    /\ IdleLoader
    /\ IdleMain

SpecLong == InitLong /\ [][Next]_vars

----------------------------------------------------------------------------
\* Bounded inputs of the parser

MaxLen == 4

ParserAlphabet == {"0", "2", "5", "-", ":", ",", " ", "a", "sup2"}

\* The expressions of the docstring and of the specification's examples.
ExampleExprs ==
    { <<"0", "-", "5", ",", "9", ",", "N", "a", "m", "e">>,
      <<"5", "-", "2">>,
      <<"2", ":", "7">>,
      <<"0", ",", "3", ",", "5">>,
      <<"A", "c", "c", "o", "u", "n", "t", ",", "P", "r", "o", "j", "e", "c", "t">>,
      <<"-", "3">>,
      <<"1", "-", "2", "-", "3">>,
      <<"1", ".", "5">>,
      <<"a", "-", "b">>,
      <<" ", "7", " ", "-", " ", "4", " ", ",", " ", "x", " ", "y", " ">> }

ParserExprs == StringsUpTo(ParserAlphabet, MaxLen) \cup ExampleExprs \cup {NONE}

InitParser ==
    /\ pc = "call_parse"
    /\ usecols \in ParserExprs
    /\ caller = "direct"
    /\ IdleLoader
    /\ IdleFile
    /\ IdleMain

\* A call of _parse_usecols_expr(expr) on its own.
ParseExpr ==
    /\ pc = "call_parse"
    /\ LET r == _parse_usecols_expr(usecols)
       IN  /\ exc' = r.exc
           /\ cols' = IF r.exc = "none" THEN SomeCols(r.out) ELSE cols
           /\ pc' = IF r.exc = "none" THEN "returned" ELSE "raised"
    /\ UNCHANGED <<caller, usecols, fileVars, loaderVars, mainVars>>

NextParser == ParseExpr

SpecParser == InitParser /\ [][NextParser]_vars

----------------------------------------------------------------------------
\* Reading a CSV text back: its lines, and the fields of a line.

Unquote(f) ==
    IF Len(f) >= 2 /\ f[1] = "\"" /\ f[Len(f)] = "\""
    THEN SubSeq(f, 2, Len(f) - 1)
    ELSE f

LineFields(line) ==
    IF line = <<>> THEN <<>>
    ELSE LET p == split(line, ",") IN [i \in 1..Len(p) |-> Unquote(p[i])]

\* The header of the returned text and its data rows.
TextHeader == LineFields(splitlines(text)[1])
TextRows ==
    LET ls == splitlines(text) IN [r \in 1..(Len(ls) - 1) |-> LineFields(ls[r + 1])]

NoDuplicates(s) == \A i, j \in 1..Len(s) : s[i] = s[j] => i = j

\* A selector that designates a column of the file, and the column's name.
ValidSel(s) ==
    IF s.kind = "int" THEN s.pos \in 0..(Len(header) - 1)
    ELSE \E c \in 1..Len(header) : header[c] = s.name

Designated(s) == IF s.kind = "int" THEN header[s.pos + 1] ELSE s.name

\* A str of decimal digits.
IsDecimal(s) == s # <<>> /\ \A i \in 1..Len(s) : s[i] \in DecDigits

\* The positions lo, lo+1, ..., hi.
Upward(lo, hi) == [i \in 1..(hi - lo + 1) |-> Pos(lo + i - 1)]

\* What one comma-free token is to contribute: a range a-b or a:b its
\* positions from min(a,b) up to max(a,b), digits their position, an empty
\* token nothing, any other text its trimmed self as a name.
Contribution(t) ==
    LET s == strip(t)
        seps == {k \in 1..Len(s) :
                   /\ s[k] \in {"-", ":"}
                   /\ IsDecimal(strip(SubSeq(s, 1, k - 1)))
                   /\ IsDecimal(strip(SubSeq(s, k + 1, Len(s))))}
    IN  IF s = <<>> THEN <<>>
        ELSE IF seps # {}
        THEN LET k == CHOOSE k \in seps : TRUE
                 a == int(strip(SubSeq(s, 1, k - 1)))
                 b == int(strip(SubSeq(s, k + 1, Len(s))))
             IN  IF a <= b THEN Upward(a, b) ELSE Upward(b, a)
        ELSE IF IsDecimal(s) THEN <<Pos(int(s))>>
        ELSE <<Name(s)>>

Commas(s) == {k \in 1..Len(s) : s[k] = ","}

Example1 == <<"0", "-", "5", ",", "9", ",", "N", "a", "m", "e">>
Example2 == <<"5", "-", "2">>

\* C3: the parser returns the selectors in the order of the tokens: the list
\* for "e1,e2" is the list for e1 followed by the list for e2; a comma-free
\* token contributes its range in ascending order whatever the order of the
\* endpoints, its one position, or its trimmed text as a name; "0-5,9,Name"
\* yields 0,1,2,3,4,5,9,"Name" and "5-2" yields 2,3,4,5.
C3_TokenOrderAndRanges ==
    (pc = "returned" /\ usecols # NONE) =>
        /\ \A k \in Commas(usecols) :
               cols.sel = _parse_usecols_expr(SubSeq(usecols, 1, k - 1)).out
                          \o _parse_usecols_expr(SubSeq(usecols, k + 1, Len(usecols))).out
        /\ Commas(usecols) = {} => cols.sel = Contribution(usecols)
        /\ usecols = Example1 =>
               cols.sel = <<Pos(0), Pos(1), Pos(2), Pos(3), Pos(4), Pos(5), Pos(9),
                            Name(<<"N", "a", "m", "e">>)>>
        /\ usecols = Example2 => cols.sel = <<Pos(2), Pos(3), Pos(4), Pos(5)>>

\* A specification of several tokens, a range and a name among them, parsed.
C3_Witness ==
    /\ pc = "returned"
    /\ usecols # NONE
    /\ Commas(usecols) # {}
    /\ Len(cols.sel) >= 6
    /\ \E i \in 1..Len(cols.sel) : cols.sel[i].kind = "int"
    /\ \E i \in 1..Len(cols.sel) : cols.sel[i].kind = "str"

\* C5: the parser never fails: every call returns a list, a token of digit
\* characters only becomes one position and a token of any other shape that
\* is no range becomes a name.
C5_ParserNeverFails ==
    /\ pc # "raised"
    /\ (pc = "returned" /\ usecols # NONE /\ Commas(usecols) = {}) =>
           LET t == strip(usecols)
           IN  /\ isdigit(t) => cols.sel = <<Pos(int(t))>>
               /\ (t # <<>> /\ ~isdigit(t) /\ ~_RANGE_RE(t).matched) =>
                      cols.sel = <<Name(t)>>

----------------------------------------------------------------------------
\* Claims about csv_to_text

\* The call has ended, by a return or by an exception.
Ended == pc \in {"returned", "raised"}

\* The selector list has a selector with no column and one with a column.
PartlyValid ==
    /\ cols.given
    /\ \E i \in 1..Len(cols.sel) : ~ValidSel(cols.sel[i])
    /\ \E i \in 1..Len(cols.sel) : ValidSel(cols.sel[i])

\* The selector list is not empty and no selector of it has a column.
AllInvalid ==
    /\ cols.given
    /\ cols.sel # <<>>
    /\ \A i \in 1..Len(cols.sel) : ~ValidSel(cols.sel[i])

\* The names of the columns the valid selectors designate.
DesignatedNames ==
    {Designated(cols.sel[i]) : i \in {k \in 1..Len(cols.sel) : ValidSel(cols.sel[k])}}

\* The returned rows are the file's rows restricted to the returned columns.
RowsOfFile ==
    /\ Len(TextRows) = Len(rows)
    /\ \A r \in 1..Len(rows) : \A k \in 1..Len(TextHeader) :
           \E c \in 1..Len(header) :
               header[c] = TextHeader[k] /\ TextRows[r][k] = rows[r][c]

\* C1: with at least one invalid and at least one valid selector, the call
\* does not raise and the columns of the returned text are exactly the
\* columns the valid selectors designate, each once.
C1_InvalidSelectorsDropped ==
    (Ended /\ PartlyValid) =>
        /\ pc = "returned"
        /\ NoDuplicates(TextHeader)
        /\ Range(TextHeader) = DesignatedNames

\* C2: with a non-empty selector list whose selectors are all invalid, the
\* call returns the full table: every column of the header in header order,
\* with all data rows.
C2_AllInvalidReadsAll ==
    (Ended /\ AllInvalid) =>
        /\ pc = "returned"
        /\ TextHeader = header
        /\ TextRows = rows
        /\ n_rows = Len(rows)

\* Every selector was invalid, and a file with data rows was returned whole.
C2_Witness ==
    /\ pc = "returned"
    /\ AllInvalid
    /\ path = "full"
    /\ Len(header) >= 2
    /\ Len(rows) >= 1
    /\ TextRows = rows

\* A specification of blanks and commas only.
Blank(s) == s # NONE /\ \A i \in 1..Len(s) : s[i] \in {" ", ","}

\* C4: an empty, whitespace-only or all-empty-token specification parses to
\* the empty selector list, and csv_to_text then selects all columns of the
\* file, as it does with no specification.
C4_BlankSelectsAll ==
    (Ended /\ Blank(usecols)) =>
        /\ pc = "returned"
        /\ cols.sel = <<>>
        /\ _parse_usecols_expr(usecols) = [exc |-> "none", out |-> <<>>]
        /\ TextHeader = header
        /\ TextRows = rows

\* C7: the row count returned is the number of data rows of the file, for
\* every column specification and on every path through the loader.
C7_RowCount ==
    pc = "returned" => (n_rows = Len(rows) /\ Len(TextRows) = Len(rows))

\* The names the corrected selector list designates.
FixedNames == {Designated(fixed[i]) : i \in 1..Len(fixed)}

\* C10: when the restricted read and the retry both fail, the header of the
\* returned text holds each selected column exactly once and only names of
\* the true header.
C10_ProjectionNoDuplicates ==
    (pc = "returned" /\ path = "project") =>
        /\ NoDuplicates(TextHeader)
        /\ Range(TextHeader) = FixedNames
        /\ Range(TextHeader) \subseteq Range(header)

\* The field of the file behind the cell in row r of the returned column k.
FileField(r, k) ==
    rows[r][CHOOSE c \in 1..Len(header) : header[c] = TextHeader[k]]

Marker == <<".", ".", ".", "[", "T", "R", "U", "N", "C", "]", ".", ".", ".">>

\* C6: in the returned text a cell longer than 500 characters is its first
\* 450 characters followed by the marker, and a cell of 500 characters or
\* fewer is emitted unchanged (a missing value as the empty string), cell by
\* cell: a long cell does not alter another cell of its row.
C6_TruncationPerCell ==
    pc = "returned" =>
        /\ Len(TextRows) = Len(rows)
        /\ \A r \in 1..Len(rows) :
               /\ Len(TextRows[r]) = Len(TextHeader)
               /\ \A k \in 1..Len(TextHeader) :
                      LET x == FileField(r, k)
                          y == TextRows[r][k]
                      IN  /\ Len(x) > 500 =>
                                 /\ Len(y) = 463
                                 /\ SubSeq(y, 1, 450) = SubSeq(x, 1, 450)
                                 /\ SubSeq(y, 451, 463) = Marker
                          /\ (Len(x) <= 500 /\ x \notin NaValues) => y = x
                          /\ x \in NaValues => y = <<>>

\* A row with a cell of 501 characters, truncated, beside a cell of exactly
\* 500 characters, returned whole.
C6_Witness ==
    /\ pc = "returned"
    /\ Len(TextHeader) = 2
    /\ \E r \in 1..Len(rows) :
           /\ Len(rows[r][1]) = 501
           /\ Len(TextRows[r][1]) = 463
           /\ Len(rows[r][2]) = 500
           /\ TextRows[r][2] = rows[r][2]

----------------------------------------------------------------------------
\* Claims about main

ConfigMissing == Falsy(endpoint) \/ Falsy(key) \/ Falsy(csv_path)

\* The response carries no text but whitespace.
EmptyResponse ==
    /\ response.kind \in {"text", "dump_text"}
    /\ response.text # NONE => \A i \in 1..Len(response.text) : IsSpace(response.text[i])

\* The characters of a str, or of the lines of a list, that are no whitespace.
Solid(s) == SelectSeq(s, LAMBDA c : ~IsSpace(c))

RECURSIVE SolidOfLines(_)
SolidOfLines(ls) ==
    IF ls = <<>> THEN <<>> ELSE Solid(Head(ls)) \o SolidOfLines(Tail(ls))

\* C8: a run of main sends exactly one request once the configuration checks
\* have passed and the CSV has been loaded, none when it stops on a
\* configuration error or on a failure to read the file, and never a second
\* one, an empty response included.
C8_ExactlyOneRequest ==
    /\ requests <= 1
    /\ (pc = "exited" /\ text # <<>>) => requests = 1
    /\ pc \in {"extract"} => requests = 1
    /\ exitcode \in {0, 3} => requests = 1
    /\ (ConfigMissing \/ ~readable) => requests = 0
    /\ (pc = "exited" /\ text = <<>>) => requests = 0

\* The run ended on an empty response, after its one request.
C8_Witness ==
    /\ pc = "exited"
    /\ exitcode = 3
    /\ EmptyResponse
    /\ requests = 1

\* C9: main exits with 2 when the endpoint, the key or the CSV path is
\* missing or empty, before any file read or request and without printing;
\* with 3 when the text of the response is empty after stripping; with 0 only
\* after a non-empty summary has been printed line by line.
C9_ExitCodes ==
    /\ ConfigMissing =>
           /\ pc \in {"main", "exited"}
           /\ pc = "exited" => exitcode = 2
           /\ printed = <<>> /\ requests = 0
           /\ path = "none" /\ names = <<>> /\ text = <<>>
    /\ (pc = "exited" /\ requests = 1 /\ EmptyResponse) =>
           (exitcode = 3 /\ printed = <<>>)
    /\ exitcode = 2 => ConfigMissing
    /\ exitcode = 3 => (requests = 1 /\ EmptyResponse)
    /\ exitcode = 0 =>
           /\ pc = "exited" /\ requests = 1 /\ ~EmptyResponse
           /\ printed # <<>>
           /\ SolidOfLines(printed) = Solid(response.text)
           /\ Len(printed) = 1 + Cardinality({i \in 1..Len(strip(response.text)) :
                                                strip(response.text)[i] = "\n"})
           /\ \A i \in 1..Len(printed) :
                  /\ \A j \in 1..Len(printed[i]) : printed[i][j] # "\n"
                  /\ printed[i] = rstrip(printed[i])

\* A summary of two lines was printed and the run ended with 0.
C9_Witness ==
    /\ pc = "exited"
    /\ exitcode = 0
    /\ Len(printed) = 2
====
